---- MODULE Spec2Model ----
(***************************************************************************)
(* A model of ocr_to_excel.py: fixed-position OCR of a scanned PDF and     *)
(* placement of the recognised values in a spreadsheet.                    *)
(*                                                                         *)
(* Strings whose characters matter (cell references, OCR text) are         *)
(* sequences of one-character strings; images are sequences of pixels.     *)
(* Three specifications share the variables:                               *)
(*   SpecParse  applies _parse_cell_ref to a bounded set of strings,       *)
(*   SpecImage  applies preprocess_image to a bounded set of images,       *)
(*   Spec       runs main(): load_config, extract_data_from_pdf,           *)
(*              save_to_excel, one step per statement group.               *)
(***************************************************************************)
EXTENDS Integers, Sequences, FiniteSets, TLC

VARIABLES
    cell_ref,        \* SpecParse: the argument of _parse_cell_ref
    parsed,          \* SpecParse: its outcome, NoVal before the call
    image,           \* SpecImage: the argument of preprocess_image
    result,          \* SpecImage: preprocess_image(image), NoVal before the call
    result2,         \* SpecImage: preprocess_image(result), NoVal before the call
    config_exists,   \* whether the file OCR_CONFIG names exists
    config,          \* the parsed configuration
    n_pages,         \* the number of pages the input PDF rasterizes to
    pc,              \* the statement main() is at
    images,          \* the page images convert_from_path returned (page ids)
    page_num,        \* the page the loop of line 56 is at
    field_idx,       \* the field a loop over config.fields is at
    page_record,     \* the record being built for page_num
    page_anchor,     \* (page_row, page_col) of line 122, NoVal before it
    extracted_data,  \* the list extract_data_from_pdf builds
    row_i,           \* the index i of the loop of line 131
    ws,              \* the cells of the worksheet in memory
    written,         \* every ws.cell(row, column, value) call, in order
    saved,           \* the content of the file at output_excel, NoVal if not written
    out_dir,         \* whether the output's parent directory has been created
    err,             \* the exception that ended the run, NoVal if none
    raster_calls,    \* calls of convert_from_path so far
    ocr_calls        \* calls of pytesseract.image_to_string so far

vars == <<cell_ref, parsed, image, result, result2, config_exists, config,
          n_pages, pc, images, page_num, field_idx, page_record,
          page_anchor, extracted_data, row_i, ws, written, saved, out_dir, err,
          raster_calls, ocr_calls>>

parse_vars == <<cell_ref, parsed>>
image_vars == <<image, result, result2>>
run_vars == <<config_exists, config, n_pages, pc, images, page_num, field_idx,
              page_record, page_anchor, extracted_data, row_i, ws, written, saved, out_dir,
              err, raster_calls, ocr_calls>>

NoVal == [tag |-> "none"]

(***************************************************************************)
(* Bounds of the model.                                                    *)
(***************************************************************************)
MaxRefLen == 5   \* longest string handed to _parse_cell_ref in SpecParse
MaxPixels == 2   \* largest image (in pixels) handed to preprocess_image
MaxFields == 2   \* longest config["fields"] list
MaxPages == 2    \* most pages a PDF rasterizes to

(***************************************************************************)
(* Characters.                                                             *)
(***************************************************************************)
Upper == <<"A","B","C","D","E","F","G","H","I","J","K","L","M",
           "N","O","P","Q","R","S","T","U","V","W","X","Y","Z">>
Lower == <<"a","b","c","d","e","f","g","h","i","j","k","l","m",
           "n","o","p","q","r","s","t","u","v","w","x","y","z">>
Digits == <<"0","1","2","3","4","5","6","7","8","9">>
Whitespace == {" ", "\t", "\n", "\r"}

IsUpper(ch) == \E i \in 1..Len(Upper) : Upper[i] = ch
IsLower(ch) == \E i \in 1..Len(Lower) : Lower[i] = ch
IsLetter(ch) == IsUpper(ch) \/ IsLower(ch)
IsDigit(ch) == \E i \in 1..Len(Digits) : Digits[i] = ch
DigitValue(ch) == (CHOOSE i \in 1..Len(Digits) : Digits[i] = ch) - 1
LetterValue(ch) == CHOOSE i \in 1..Len(Upper) : Upper[i] = ch

\* str.upper() on one character
UpperChar(ch) ==
    IF IsLower(ch) THEN Upper[CHOOSE i \in 1..Len(Lower) : Lower[i] = ch] ELSE ch
MapUpper(s) == [i \in 1..Len(s) |-> UpperChar(s[i])]

\* str.strip(): drop the whitespace at both ends
RECURSIVE LStrip(_)
LStrip(s) ==
    IF s # <<>> /\ Head(s) \in Whitespace THEN LStrip(Tail(s)) ELSE s
RECURSIVE RStrip(_)
RStrip(s) ==
    IF s # <<>> /\ s[Len(s)] \in Whitespace
    THEN RStrip(SubSeq(s, 1, Len(s) - 1)) ELSE s
Strip(s) == RStrip(LStrip(s))

(***************************************************************************)
(* _parse_cell_ref (lines 92-98).                                          *)
(***************************************************************************)
\* the length of the longest prefix of s made of letters: group 1 of
\* ^([A-Za-z]+)(\d+)$ when the pattern matches
RECURSIVE LetterPrefixLen(_)
LetterPrefixLen(s) ==
    IF s # <<>> /\ IsLetter(Head(s)) THEN 1 + LetterPrefixLen(Tail(s)) ELSE 0

AllDigits(s) == \A i \in 1..Len(s) : IsDigit(s[i])

\* re.match(r"^([A-Za-z]+)(\d+)$", s): the two groups, or NoVal
ReMatch(s) ==
    LET k == LetterPrefixLen(s)
        rest == SubSeq(s, k + 1, Len(s))
    IN  IF k >= 1 /\ rest # <<>> /\ AllDigits(rest)
        THEN [tag |-> "match", g1 |-> SubSeq(s, 1, k), g2 |-> rest]
        ELSE NoVal

\* int() of a string of decimal digits
RECURSIVE IntOfDigits(_)
IntOfDigits(s) ==
    IF s = <<>> THEN 0
    ELSE 10 * IntOfDigits(SubSeq(s, 1, Len(s) - 1)) + DigitValue(s[Len(s)])

\* openpyxl's column_index_from_string: a table of the names A..ZZZ
\* (1..18278); any other name raises ValueError
RECURSIVE ColumnNumber(_)
ColumnNumber(s) ==
    IF s = <<>> THEN 0
    ELSE 26 * ColumnNumber(SubSeq(s, 1, Len(s) - 1)) + LetterValue(s[Len(s)])
column_index_from_string(s) ==
    IF Len(s) <= 3
    THEN [tag |-> "ok", col |-> ColumnNumber(MapUpper(s))]
    ELSE [tag |-> "ValueError", what |-> "column_name"]

\* _parse_cell_ref without the strip() of line 94
ParseNoStrip(s) ==
    LET m == ReMatch(s)
    IN  IF m = NoVal THEN [tag |-> "ValueError", what |-> "cell_ref"]
        ELSE LET c == column_index_from_string(MapUpper(m.g1))
             IN  IF c.tag # "ok" THEN c
                 ELSE [tag |-> "ok", row |-> IntOfDigits(m.g2), col |-> c.col]
\* lines 94-98
_parse_cell_ref(s) ==
    LET m == ReMatch(Strip(s))
    IN  IF m = NoVal THEN [tag |-> "ValueError", what |-> "cell_ref"]
        ELSE LET c == column_index_from_string(MapUpper(m.g1))
             IN  IF c.tag # "ok" THEN c
                 ELSE [tag |-> "ok", row |-> IntOfDigits(m.g2), col |-> c.col]

(***************************************************************************)
(* preprocess_image (lines 28-40).  An image is [mode, data]: mode "RGB"   *)
(* has <<r, g, b>> pixels, modes "L" and "1" have one byte per pixel.      *)
(***************************************************************************)
threshold == 150

\* Pillow's RGB -> L: ITU-R 601-2 luma in 16-bit fixed point
Luma(p) == (p[1] * 19595 + p[2] * 38470 + p[3] * 7471 + 32768) \div 65536

\* Image.convert("L")
ConvertL(img) ==
    IF img.mode = "RGB"
    THEN [mode |-> "L", data |-> [i \in 1..Len(img.data) |-> Luma(img.data[i])]]
    ELSE IF img.mode = "1"
    THEN [mode |-> "L",
          data |-> [i \in 1..Len(img.data) |-> IF img.data[i] # 0 THEN 255 ELSE 0]]
    ELSE img

\* the lambda with >= for >
PointAtLeast(p) == IF p >= threshold THEN 255 ELSE 0
\* the lambda of line 37
PointFn(p) == IF p > threshold THEN 255 ELSE 0

\* Image.point(f, mode="1") on an "L" image: a table lookup per pixel
Point1(img) ==
    [mode |-> "1", data |-> [i \in 1..Len(img.data) |-> PointFn(img.data[i])]]

preprocess_image(img) == ConvertL(Point1(ConvertL(img)))

(***************************************************************************)
(* SpecParse: _parse_cell_ref on every string of at most MaxRefLen         *)
(* characters over RefChars.                                               *)
(***************************************************************************)
RefChars == {"A", "B", "z", " ", "0", "1", "2"}
RefStrings == UNION {[1..n -> RefChars] : n \in 0..MaxRefLen}

\* the variables of main() while a pure function is exercised
RunIdle ==
    /\ config_exists = FALSE /\ config = NoVal /\ n_pages = 0
    /\ pc = "idle" /\ images = <<>> /\ page_num = 0 /\ field_idx = 0
    /\ page_record = <<>> /\ page_anchor = NoVal /\ extracted_data = <<>>
    /\ row_i = 0 /\ ws = <<>> /\ written = <<>> /\ saved = NoVal
    /\ out_dir = FALSE /\ err = NoVal /\ raster_calls = 0 /\ ocr_calls = 0

InitParse ==
    /\ cell_ref \in RefStrings /\ parsed = NoVal
    /\ image = NoVal /\ result = NoVal /\ result2 = NoVal
    /\ RunIdle

ParseCellRef ==
    /\ pc = "idle" /\ parsed = NoVal
    /\ parsed' = _parse_cell_ref(cell_ref)
    /\ UNCHANGED <<cell_ref, image_vars, run_vars>>

NextParse == ParseCellRef
SpecParse == InitParse /\ [][NextParse]_vars

(***************************************************************************)
(* SpecImage: preprocess_image on every image of at most MaxPixels pixels  *)
(* over the sample values, then on its own output.                         *)
(***************************************************************************)
ChannelSample == {0, 150, 255}
GreySample == {0, 149, 150, 151, 255}
RGBPixels == {<<r, g, b>> : r \in ChannelSample, g \in ChannelSample, b \in ChannelSample}
ImageSample ==
    UNION {{[mode |-> "RGB", data |-> d] : d \in [1..n -> RGBPixels]}
           \cup {[mode |-> "L", data |-> d] : d \in [1..n -> GreySample]}
           : n \in 0..MaxPixels}

InitImage ==
    /\ image \in ImageSample /\ result = NoVal /\ result2 = NoVal
    /\ cell_ref = NoVal /\ parsed = NoVal
    /\ RunIdle

Preprocess ==
    /\ pc = "idle" /\ result = NoVal
    /\ result' = preprocess_image(image)
    /\ UNCHANGED <<image, result2, parse_vars, run_vars>>

PreprocessAgain ==
    /\ pc = "idle" /\ result # NoVal /\ result2 = NoVal
    /\ result2' = preprocess_image(result)
    /\ UNCHANGED <<image, result, parse_vars, run_vars>>

NextImage == Preprocess \/ PreprocessAgain
SpecImage == InitImage /\ [][NextImage]_vars

(***************************************************************************)
(* Values of record entries and worksheet cells: a Python int or a str.    *)
(***************************************************************************)
IntVal(k) == [t |-> "int", n |-> k, s |-> <<>>]
StrVal(chars) == [t |-> "str", n |-> 0, s |-> chars]

\* dict.get(key, default)
Get(d, key, default) == IF key \in DOMAIN d THEN d[key] ELSE default

(***************************************************************************)
(* The configurations and inputs main() is run on.                         *)
(***************************************************************************)
\* page_index: the literal "all", or a page number
PageIndexAll == [all |-> TRUE, n |-> 0]
PageIndex(k) == [all |-> FALSE, n |-> k]

\* the raster of a page: A4 at the 300 dpi of line 52
PageSize == <<2480, 3508>>
BoxValid == <<100, 100, 400, 160>>
BoxBeyond == <<2400, 100, 2600, 160>>     \* right edge beyond the page
BoxInverted == <<400, 100, 100, 160>>     \* left > right
BoxZeroWidth == <<100, 100, 100, 160>>    \* left = right

Field(name, page_index, box, cell) ==
    [name |-> name, page_index |-> page_index, box |-> box, cell |-> cell]

\* cell <<>> stands for a field with no "cell" key (or an empty one: both are
\* falsy at lines 110, 126 and 137)
FieldSample ==
    { Field("X", PageIndexAll, BoxValid, <<"B", "2">>),
      Field("Y", PageIndexAll, BoxValid, <<"C", "2">>),
      Field("Y", PageIndex(2), BoxValid, <<" ", "c", "3", " ">>),
      Field("Page", PageIndexAll, BoxValid, <<>>),
      Field("X", PageIndexAll, BoxBeyond, <<"B", "2">>),
      Field("X", PageIndexAll, BoxInverted, <<>>),
      Field("Y", PageIndex(2), BoxZeroWidth, <<>>),
      Field("Y", PageIndexAll, BoxValid, <<"B", "1">>),
      Field("Y", PageIndexAll, BoxValid, <<"2", "B">>),
      Field("X", PageIndexAll, BoxValid, <<"A", "A", "A", "A", "1">>) }

FieldLists == UNION {[1..n -> FieldSample] : n \in 0..MaxFields}

\* input_pdf: absent, empty, a path with no file, the path of the scan
InputSample ==
    { [has |-> FALSE, path |-> ""], [has |-> TRUE, path |-> ""],
      [has |-> TRUE, path |-> "missing.pdf"], [has |-> TRUE, path |-> "scan.pdf"] }
ExistingFiles == {"scan.pdf"}

\* page_cell: absent, well-formed, anchored in row 1, malformed
PageCellSample ==
    { [has |-> FALSE, ref |-> <<>>], [has |-> TRUE, ref |-> <<"D", "2">>],
      [has |-> TRUE, ref |-> <<"A", "1">>], [has |-> TRUE, ref |-> <<"2", "A">>] }

Configs ==
    [input_pdf : InputSample, fields : FieldLists, page_cell : PageCellSample,
     omit_page_column : BOOLEAN]

\* line 48 without the exists() test
InputUnchecked(cfg) == cfg.input_pdf.has /\ cfg.input_pdf.path # ""
\* line 48: input_pdf is truthy and names an existing file
InputOk(cfg) ==
    cfg.input_pdf.has /\ cfg.input_pdf.path # "" /\ cfg.input_pdf.path \in ExistingFiles

Init ==
    /\ cell_ref = NoVal /\ parsed = NoVal
    /\ image = NoVal /\ result = NoVal /\ result2 = NoVal
    /\ \/ config_exists = FALSE /\ config = NoVal /\ n_pages = 0
       \/ /\ config_exists = TRUE /\ config \in Configs
          /\ IF InputOk(config) THEN n_pages \in 0..MaxPages ELSE n_pages = 0
    /\ pc = "load_config" /\ images = <<>> /\ page_num = 0 /\ field_idx = 0
    /\ page_record = <<>> /\ page_anchor = NoVal /\ extracted_data = <<>>
    /\ row_i = 0 /\ ws = <<>> /\ written = <<>> /\ saved = NoVal
    /\ out_dir = FALSE /\ err = NoVal /\ raster_calls = 0 /\ ocr_calls = 0

\* an uncaught exception ends main()
Raise(e) == err' = e /\ pc' = "done"

(***************************************************************************)
(* load_config (lines 19-25), called at line 150.                          *)
(***************************************************************************)
LoadConfigMissing ==
    /\ pc = "load_config" /\ ~config_exists
    /\ Raise([tag |-> "FileNotFoundError", what |-> "config"])
    /\ UNCHANGED <<parse_vars, image_vars, config_exists, config, n_pages, images,
                   page_num, field_idx, page_record, page_anchor, extracted_data,
                   row_i, ws, written, saved, out_dir, raster_calls, ocr_calls>>

LoadConfig ==
    /\ pc = "load_config" /\ config_exists
    /\ pc' = "check_input"
    /\ UNCHANGED <<parse_vars, image_vars, config_exists, config, n_pages, images,
                   page_num, field_idx, page_record, page_anchor, extracted_data,
                   row_i, ws, written, saved, out_dir, err, raster_calls, ocr_calls>>

(***************************************************************************)
(* extract_data_from_pdf (lines 43-89).                                    *)
(***************************************************************************)
\* lines 47-49
InputNotFound ==
    /\ pc = "check_input" /\ ~InputOk(config)
    /\ Raise([tag |-> "FileNotFoundError", what |-> "input_pdf"])
    /\ UNCHANGED <<parse_vars, image_vars, config_exists, config, n_pages, images,
                   page_num, field_idx, page_record, page_anchor, extracted_data,
                   row_i, ws, written, saved, out_dir, raster_calls, ocr_calls>>

InputFound ==
    /\ pc = "check_input" /\ InputOk(config)
    /\ pc' = "rasterize"
    /\ UNCHANGED <<parse_vars, image_vars, config_exists, config, n_pages, images,
                   page_num, field_idx, page_record, page_anchor, extracted_data,
                   row_i, ws, written, saved, out_dir, err, raster_calls, ocr_calls>>

\* lines 52-53: convert_from_path returns the pages in order
Rasterize ==
    /\ pc = "rasterize"
    /\ raster_calls' = raster_calls + 1
    /\ images' = [p \in 1..n_pages |-> p]
    /\ extracted_data' = <<>>
    /\ page_num' = 1
    /\ pc' = "page"
    /\ UNCHANGED <<parse_vars, image_vars, config_exists, config, n_pages,
                   field_idx, page_record, page_anchor, row_i, ws, written,
                   saved, out_dir, err, ocr_calls>>

\* line 52: the rasterizer fails (unreadable PDF)
RasterizeError ==
    /\ pc = "rasterize"
    /\ raster_calls' = raster_calls + 1
    /\ Raise([tag |-> "ExternalError", what |-> "convert_from_path"])
    /\ UNCHANGED <<parse_vars, image_vars, config_exists, config, n_pages, images,
                   page_num, field_idx, page_record, page_anchor, extracted_data,
                   row_i, ws, written, saved, out_dir, ocr_calls>>

\* lines 56-57: the next page, its record started with the page number
NextPage ==
    /\ pc = "page" /\ page_num <= Len(images)
    /\ page_record' = ("Page" :> IntVal(page_num))
    /\ field_idx' = 1
    /\ pc' = "field"
    /\ UNCHANGED <<parse_vars, image_vars, config_exists, config, n_pages, images,
                   page_num, page_anchor, extracted_data, row_i, ws, written,
                   saved, out_dir, err, raster_calls, ocr_calls>>

\* lines 62-63: the field is processed on this page
Applies(f, p) == f.page_index.all \/ p = f.page_index.n

\* Image.crop (line 69): a box with right < left or bottom < top raises
\* ValueError in current Pillow and gave an empty image in older releases; a
\* box of no width or height gives an empty image; any other box, within the
\* page or not, gives the region (what lies beyond the page is filled with 0)
Crop(p, box) ==
    IF box[3] < box[1] \/ box[4] < box[2]
    THEN {[tag |-> "ValueError", what |-> "crop"],
          [tag |-> "image", page |-> p, box |-> box, empty |-> TRUE]}
    ELSE {[tag |-> "image", page |-> p, box |-> box,
           empty |-> (box[3] = box[1] \/ box[4] = box[2])]}

BoxGlyph(box) ==
    CASE box = BoxValid -> "a" [] box = BoxBeyond -> "b"
      [] box = BoxInverted -> "c" [] OTHER -> "d"

\* pytesseract.image_to_string (lines 79-83): the text of the region with
\* the line break tesseract ends it with, or a failure of the engine; an
\* empty image cannot be handed to the engine
image_to_string(img) ==
    {[tag |-> "ExternalError", what |-> "image_to_string"]}
    \cup (IF img.empty THEN {}
          ELSE {[tag |-> "text",
                 text |-> <<" ", ToString(img.page), BoxGlyph(img.box), "\n">>]})

CurField == config.fields[field_idx]

\* lines 62-64
SkipField ==
    /\ pc = "field" /\ field_idx <= Len(config.fields)
    /\ ~Applies(CurField, page_num)
    /\ field_idx' = field_idx + 1
    /\ UNCHANGED <<parse_vars, image_vars, config_exists, config, n_pages, images,
                   page_num, page_record, page_anchor, extracted_data, row_i, ws,
                   written, saved, out_dir, err, raster_calls, ocr_calls, pc>>

\* line 69 raising, the exception swallowed and the field skipped
CropErrorIgnored ==
    /\ pc = "field" /\ field_idx <= Len(config.fields)
    /\ Applies(CurField, page_num)
    /\ \E c \in Crop(images[page_num], CurField.box) : c.tag # "image"
    /\ field_idx' = field_idx + 1
    /\ UNCHANGED <<parse_vars, image_vars, config_exists, config, n_pages, images,
                   page_num, page_record, page_anchor, extracted_data, row_i, ws,
                   written, saved, out_dir, err, raster_calls, ocr_calls, pc>>

\* line 69 raises
CropError ==
    /\ pc = "field" /\ field_idx <= Len(config.fields)
    /\ Applies(CurField, page_num)
    /\ \E c \in Crop(images[page_num], CurField.box) :
          c.tag # "image" /\ Raise(c)
    /\ UNCHANGED <<parse_vars, image_vars, config_exists, config, n_pages, images,
                   page_num, field_idx, page_record, page_anchor, extracted_data,
                   row_i, ws, written, saved, out_dir, raster_calls, ocr_calls>>

\* lines 66-83, image_to_string raises
OcrError ==
    /\ pc = "field" /\ field_idx <= Len(config.fields)
    /\ Applies(CurField, page_num)
    /\ \E c \in Crop(images[page_num], CurField.box) :
          /\ c.tag = "image"
          /\ \E o \in image_to_string(c) : o.tag # "text" /\ Raise(o)
    /\ ocr_calls' = ocr_calls + 1
    /\ UNCHANGED <<parse_vars, image_vars, config_exists, config, n_pages, images,
                   page_num, field_idx, page_record, page_anchor, extracted_data,
                   row_i, ws, written, saved, out_dir, raster_calls>>

\* lines 66-85: crop, OCR, strip, store under the field's name
StoreField ==
    /\ pc = "field" /\ field_idx <= Len(config.fields)
    /\ Applies(CurField, page_num)
    /\ \E c \in Crop(images[page_num], CurField.box) :
          /\ c.tag = "image"
          /\ \E o \in image_to_string(c) :
                /\ o.tag = "text"
                /\ page_record' = (CurField.name :> StrVal(Strip(o.text))) @@ page_record
    /\ ocr_calls' = ocr_calls + 1
    /\ field_idx' = field_idx + 1
    /\ UNCHANGED <<parse_vars, image_vars, config_exists, config, n_pages, images,
                   page_num, page_anchor, extracted_data, row_i, ws, written,
                   saved, out_dir, err, raster_calls, pc>>

\* line 87
AppendRecord ==
    /\ pc = "field" /\ field_idx > Len(config.fields)
    /\ extracted_data' = Append(extracted_data, page_record)
    /\ page_num' = page_num + 1
    /\ pc' = "page"
    /\ UNCHANGED <<parse_vars, image_vars, config_exists, config, n_pages, images,
                   field_idx, page_record, page_anchor, row_i, ws, written,
                   saved, out_dir, err, raster_calls, ocr_calls>>

\* line 89, and main's call of save_to_excel (line 152)
ReturnData ==
    /\ pc = "page" /\ page_num > Len(images)
    /\ pc' = "save_to_excel"
    /\ UNCHANGED <<parse_vars, image_vars, config_exists, config, n_pages, images,
                   page_num, field_idx, page_record, page_anchor, extracted_data,
                   row_i, ws, written, saved, out_dir, err, raster_calls, ocr_calls>>

(***************************************************************************)
(* save_to_excel (lines 101-145).                                          *)
(***************************************************************************)
\* f.get("cell") is truthy
HasCell(f) == f.cell # <<>>
\* line 110
use_cells(cfg) == \E k \in 1..Len(cfg.fields) : HasCell(cfg.fields[k])

\* line 119 with the flag taken as always set
OmitPageAlways(cfg) == TRUE
\* line 119: config.get("omit_page_column", False)
omit_page(cfg) == cfg.omit_page_column

\* "B2" as the default anchor
DefaultPageCellB2 == <<"B", "2">>
\* line 121: config.get("page_cell", "A2")
DefaultPageCell == <<"A", "2">>
page_cell(cfg) == IF cfg.page_cell.has THEN cfg.page_cell.ref ELSE DefaultPageCell

\* the offset taken from the page number instead of the index
RowOffsetByPage(i) == i + 1
\* line 132
row_offset(i) == i

\* Worksheet.cell(row, column, value): openpyxl rejects a row or column below 1
CellOk(row, col) == row >= 1 /\ col >= 1
SetCell(row, col, value) ==
    /\ ws' = (<<row, col>> :> value) @@ ws
    /\ written' = Append(written, [row |-> row, col |-> col, value |-> value])
CellError == [tag |-> "ValueError", what |-> "row_or_column_below_1"]

\* lines 108-118: the parent directory, then the layout
BeginSave ==
    /\ pc = "save_to_excel"
    /\ out_dir' = TRUE
    /\ ws' = <<>>
    /\ pc' = IF use_cells(config) /\ config.fields # <<>>
             THEN "page_header" ELSE "to_excel"
    /\ UNCHANGED <<parse_vars, image_vars, config_exists, config, n_pages, images,
                   page_num, field_idx, page_record, page_anchor, extracted_data,
                   row_i, written, saved, err, raster_calls, ocr_calls>>

\* lines 119-120 with omit_page_column set
NoPageHeader ==
    /\ pc = "page_header" /\ omit_page(config)
    /\ field_idx' = 1
    /\ pc' = "field_header"
    /\ UNCHANGED <<parse_vars, image_vars, config_exists, config, n_pages, images,
                   page_num, page_record, page_anchor, extracted_data, row_i, ws,
                   written, saved, out_dir, err, raster_calls, ocr_calls>>

\* lines 121-123
PageHeader ==
    /\ pc = "page_header" /\ ~omit_page(config)
    /\ LET a == _parse_cell_ref(page_cell(config))
       IN  /\ a.tag = "ok" /\ CellOk(a.row - 1, a.col)
           /\ page_anchor' = a
           /\ SetCell(a.row - 1, a.col, StrVal(<<"Page">>))
    /\ field_idx' = 1
    /\ pc' = "field_header"
    /\ UNCHANGED <<parse_vars, image_vars, config_exists, config, n_pages, images,
                   page_num, page_record, extracted_data, row_i, saved, out_dir,
                   err, raster_calls, ocr_calls>>

\* line 122 or line 123 raises
PageHeaderError ==
    /\ pc = "page_header" /\ ~omit_page(config)
    /\ LET a == _parse_cell_ref(page_cell(config))
       IN  \/ a.tag # "ok" /\ Raise(a)
           \/ a.tag = "ok" /\ ~CellOk(a.row - 1, a.col) /\ Raise(CellError)
    /\ UNCHANGED <<parse_vars, image_vars, config_exists, config, n_pages, images,
                   page_num, field_idx, page_record, page_anchor, extracted_data,
                   row_i, ws, written, saved, out_dir, raster_calls, ocr_calls>>

\* lines 126-127
SkipHeader ==
    /\ pc = "field_header" /\ field_idx <= Len(config.fields)
    /\ ~HasCell(CurField)
    /\ field_idx' = field_idx + 1
    /\ UNCHANGED <<parse_vars, image_vars, config_exists, config, n_pages, images,
                   page_num, page_record, page_anchor, extracted_data, row_i, ws,
                   written, saved, out_dir, err, raster_calls, ocr_calls, pc>>

\* lines 128-129
FieldHeader ==
    /\ pc = "field_header" /\ field_idx <= Len(config.fields)
    /\ HasCell(CurField)
    /\ LET a == _parse_cell_ref(CurField.cell)
       IN  /\ a.tag = "ok" /\ CellOk(a.row - 1, a.col)
           /\ SetCell(a.row - 1, a.col, StrVal(<<CurField.name>>))
    /\ field_idx' = field_idx + 1
    /\ UNCHANGED <<parse_vars, image_vars, config_exists, config, n_pages, images,
                   page_num, page_record, page_anchor, extracted_data, row_i,
                   saved, out_dir, err, raster_calls, ocr_calls, pc>>

\* line 128 or line 129 raises
FieldHeaderError ==
    /\ pc = "field_header" /\ field_idx <= Len(config.fields)
    /\ HasCell(CurField)
    /\ LET a == _parse_cell_ref(CurField.cell)
       IN  \/ a.tag # "ok" /\ Raise(a)
           \/ a.tag = "ok" /\ ~CellOk(a.row - 1, a.col) /\ Raise(CellError)
    /\ UNCHANGED <<parse_vars, image_vars, config_exists, config, n_pages, images,
                   page_num, field_idx, page_record, page_anchor, extracted_data,
                   row_i, ws, written, saved, out_dir, raster_calls, ocr_calls>>

\* the loop of line 125 ends, the loop of line 131 starts
HeadersDone ==
    /\ pc = "field_header" /\ field_idx > Len(config.fields)
    /\ row_i' = 0
    /\ pc' = "row"
    /\ UNCHANGED <<parse_vars, image_vars, config_exists, config, n_pages, images,
                   page_num, field_idx, page_record, page_anchor, extracted_data,
                   ws, written, saved, out_dir, err, raster_calls, ocr_calls>>

\* lines 131-134: the next record, its page number in the page column
\* (page_row - 1 >= 1 held at line 123, so line 134 cannot raise)
RowPage ==
    /\ pc = "row" /\ row_i < Len(extracted_data)
    /\ IF omit_page(config)
       THEN UNCHANGED <<ws, written>>
       ELSE SetCell(page_anchor.row + row_offset(row_i), page_anchor.col,
                    Get(extracted_data[row_i + 1], "Page", NoVal))
    /\ field_idx' = 1
    /\ pc' = "data_cell"
    /\ UNCHANGED <<parse_vars, image_vars, config_exists, config, n_pages, images,
                   page_num, page_record, page_anchor, extracted_data, row_i,
                   saved, out_dir, err, raster_calls, ocr_calls>>

\* lines 136-138
SkipCell ==
    /\ pc = "data_cell" /\ field_idx <= Len(config.fields)
    /\ ~HasCell(CurField)
    /\ field_idx' = field_idx + 1
    /\ UNCHANGED <<parse_vars, image_vars, config_exists, config, n_pages, images,
                   page_num, page_record, page_anchor, extracted_data, row_i, ws,
                   written, saved, out_dir, err, raster_calls, ocr_calls, pc>>

\* lines 139-140 (the reference parsed at line 128, so neither line raises)
DataCell ==
    /\ pc = "data_cell" /\ field_idx <= Len(config.fields)
    /\ HasCell(CurField)
    /\ LET a == _parse_cell_ref(CurField.cell)
       IN  /\ a.tag = "ok" /\ CellOk(a.row + row_offset(row_i), a.col)
           /\ SetCell(a.row + row_offset(row_i), a.col,
                      Get(extracted_data[row_i + 1], CurField.name, StrVal(<<>>)))
    /\ field_idx' = field_idx + 1
    /\ UNCHANGED <<parse_vars, image_vars, config_exists, config, n_pages, images,
                   page_num, page_record, page_anchor, extracted_data, row_i,
                   saved, out_dir, err, raster_calls, ocr_calls, pc>>

\* the loop of line 135 ends
RowDone ==
    /\ pc = "data_cell" /\ field_idx > Len(config.fields)
    /\ row_i' = row_i + 1
    /\ pc' = "row"
    /\ UNCHANGED <<parse_vars, image_vars, config_exists, config, n_pages, images,
                   page_num, field_idx, page_record, page_anchor, extracted_data,
                   ws, written, saved, out_dir, err, raster_calls, ocr_calls>>

\* lines 141 and 145
SaveWorkbook ==
    /\ pc = "row" /\ row_i >= Len(extracted_data)
    /\ saved' = [tag |-> "sheet", cells |-> ws, rows |-> <<>>]
    /\ pc' = "done"
    /\ UNCHANGED <<parse_vars, image_vars, config_exists, config, n_pages, images,
                   page_num, field_idx, page_record, page_anchor, extracted_data,
                   row_i, ws, written, out_dir, err, raster_calls, ocr_calls>>

\* lines 143-145: one row per record, one column per key
ToExcel ==
    /\ pc = "to_excel"
    /\ saved' = [tag |-> "table", cells |-> <<>>, rows |-> extracted_data]
    /\ pc' = "done"
    /\ UNCHANGED <<parse_vars, image_vars, config_exists, config, n_pages, images,
                   page_num, field_idx, page_record, page_anchor, extracted_data,
                   row_i, ws, written, out_dir, err, raster_calls, ocr_calls>>

Next ==
    \/ LoadConfigMissing \/ LoadConfig
    \/ InputNotFound \/ InputFound
    \/ Rasterize \/ RasterizeError
    \/ NextPage \/ SkipField \/ CropError \/ OcrError \/ StoreField
    \/ AppendRecord \/ ReturnData
    \/ BeginSave \/ NoPageHeader \/ PageHeader \/ PageHeaderError
    \/ SkipHeader \/ FieldHeader \/ FieldHeaderError \/ HeadersDone
    \/ RowPage \/ SkipCell \/ DataCell \/ RowDone
    \/ SaveWorkbook \/ ToExcel

Spec == Init /\ [][Next]_vars

(***************************************************************************)
(* What the claims speak of, stated apart from the code's own arithmetic.  *)
(***************************************************************************)
\* s is one or more letters followed by one or more digits
LettersThenDigits(s) ==
    \E k \in 1..(Len(s) - 1) :
        /\ \A i \in 1..k : IsLetter(s[i])
        /\ \A i \in (k + 1)..Len(s) : IsDigit(s[i])
LetterCount(s) == Cardinality({i \in 1..Len(s) : IsLetter(s[i])})

\* the decimal value of a digit string, most significant digit first
RECURSIVE DecimalValue(_)
DecimalValue(s) ==
    IF s = <<>> THEN 0
    ELSE DigitValue(Head(s)) * 10 ^ (Len(s) - 1) + DecimalValue(Tail(s))

\* the bijective base-26 value of a letter string: A = 1 .. Z = 26, AA = 27
RECURSIVE Bijective26(_)
Bijective26(s) ==
    IF s = <<>> THEN 0
    ELSE LetterValue(UpperChar(Head(s))) * 26 ^ (Len(s) - 1) + Bijective26(Tail(s))

\* the anchor a well-formed reference names
AnchorOf(s) ==
    LET k == LetterCount(s)
    IN  [row |-> DecimalValue(SubSeq(s, k + 1, Len(s))),
         col |-> Bijective26(SubSeq(s, 1, k))]
ExpectedRef(s) == [tag |-> "ok", row |-> AnchorOf(s).row, col |-> AnchorOf(s).col]
CellRefError == [tag |-> "ValueError", what |-> "cell_ref"]

LacksLeadingLetters(s) == s = <<>> \/ ~IsLetter(s[1])
LacksTrailingDigits(s) == s = <<>> \/ ~IsDigit(s[Len(s)])

\* extract_data_from_pdf has returned its list
SaveStages ==
    {"save_to_excel", "page_header", "field_header", "row", "data_cell", "to_excel"}
ExtractReturned == pc \in SaveStages \/ (pc = "done" /\ out_dir)

\* the box breaks the data model's left < right, top < bottom, or leaves the page
BadBox(box) ==
    \/ box[1] >= box[3] \/ box[2] >= box[4]
    \/ box[1] < 0 \/ box[2] < 0 \/ box[3] > PageSize[1] \/ box[4] > PageSize[2]
ValidBoxes(cfg) == \A k \in 1..Len(cfg.fields) : ~BadBox(cfg.fields[k].box)

\* the names of the fields whose page_index matches page p
NamesOn(cfg, p) == {cfg.fields[k].name : k \in {j \in 1..Len(cfg.fields) : Applies(cfg.fields[j], p)}}
\* the (page, field) pairs the extractor has to process
ApplicablePairs(cfg, n) ==
    {<<p, k>> \in (1..n) \X (1..Len(cfg.fields)) : Applies(cfg.fields[k], p)}
CellFields(cfg) == {k \in 1..Len(cfg.fields) : HasCell(cfg.fields[k])}

\* ws.cell(row, col, value) was called
Wrote(row, col, value) ==
    \E j \in 1..Len(written) :
        written[j] = [row |-> row, col |-> col, value |-> value]

\* save_to_excel ran to its end in coordinate-addressed mode
SheetSaved == pc = "done" /\ saved # NoVal /\ saved.tag = "sheet"

(***************************************************************************)
(* The claims.                                                             *)
(***************************************************************************)

\* C1 (as stated): once extract_data_from_pdf has returned for a
\* configuration whose boxes are all valid, it holds exactly one record per
\* rasterized page, and the record at position i (from 1) has Page = i.
C1_Original ==
    (ExtractReturned /\ ValidBoxes(config)) =>
        /\ Len(extracted_data) = n_pages
        /\ \A i \in 1..Len(extracted_data) :
              Get(extracted_data[i], "Page", NoVal) = IntVal(i)

\* C2 (as stated): every record in the list has exactly the keys Page and
\* the names of the fields whose page_index matches its page, and its Page
\* entry is the page number.
C2_Original ==
    \A i \in 1..Len(extracted_data) :
        /\ DOMAIN extracted_data[i] = {"Page"} \cup NamesOn(config, i)
        /\ extracted_data[i]["Page"] = IntVal(i)

C4_Original ==
    (pc = "idle" /\ parsed # NoVal) =>
        /\ LettersThenDigits(cell_ref) => parsed = ExpectedRef(cell_ref)
        /\ (LacksLeadingLetters(cell_ref) \/ LacksTrailingDigits(cell_ref))
              => parsed = CellRefError

\* C4 (amended): with t the string trimmed of surrounding whitespace,
\* _parse_cell_ref returns (decimal value of the digits, bijective base-26
\* value of the letters, case ignored) when t is one to three letters
\* followed by digits, raises the column-name ValueError when t is more than
\* three letters followed by digits, and raises the cell-reference ValueError
\* for every other string; B2 -> (2, 2), A2 -> (2, 1), AA10 -> (10, 27).
C4_ParseCellRef ==
    (pc = "idle" /\ parsed # NoVal) =>
        LET t == Strip(cell_ref)
        IN  /\ IF ~LettersThenDigits(t) THEN parsed = CellRefError
               ELSE IF LetterCount(t) > 3
               THEN parsed = [tag |-> "ValueError", what |-> "column_name"]
               ELSE parsed = ExpectedRef(t)
            /\ cell_ref = <<"B", "2">> => parsed = [tag |-> "ok", row |-> 2, col |-> 2]
            /\ cell_ref = <<"A", "2">> => parsed = [tag |-> "ok", row |-> 2, col |-> 1]
            /\ cell_ref = <<"A", "A", "1", "0">>
                  => parsed = [tag |-> "ok", row |-> 10, col |-> 27]

\* C4 witness: AA10 has been parsed to row 10, column 27.
C4_Witness ==
    /\ pc = "idle" /\ parsed = [tag |-> "ok", row |-> 10, col |-> 27]
    /\ cell_ref = <<"A", "A", "1", "0">>

\* C5 (as stated): in coordinate-addressed mode save_to_excel ends in a
\* ValueError, nothing saved, whenever a field's cell string or the
\* configuration's page_cell string (surrounding whitespace aside) is not
\* letters followed by digits, whatever omit_page_column and the number of
\* records.
C5_Original ==
    (pc = "done" /\ out_dir /\ use_cells(config)) =>
        ((\/ \E k \in CellFields(config) :
                 ~LettersThenDigits(Strip(config.fields[k].cell))
          \/ config.page_cell.has /\ ~LettersThenDigits(Strip(config.page_cell.ref)))
            => err.tag = "ValueError" /\ saved = NoVal)

\* C5 (amended): in coordinate-addressed mode save_to_excel ends in a
\* ValueError, nothing saved, whenever a field's non-empty cell string,
\* trimmed, is not letters followed by digits, or omit_page_column is not
\* set and page_cell, trimmed, is not letters followed by digits, whatever
\* the number of records; a malformed page_cell (parsed first) raises the
\* cell-reference error itself.  With omit_page_column set page_cell is
\* never parsed: the run saves the sheet whenever every field cell is a
\* reference of at most three letters to a row of 2 or more.
C5_CellReferenceError ==
    (pc = "done" /\ out_dir /\ use_cells(config)) =>
        LET badField == \E k \in CellFields(config) :
                            ~LettersThenDigits(Strip(config.fields[k].cell))
            pageRef == IF config.page_cell.has THEN config.page_cell.ref
                       ELSE <<"A", "2">>
            badPage == ~config.omit_page_column /\ ~LettersThenDigits(Strip(pageRef))
            placeable == \A k \in CellFields(config) :
                            LET t == Strip(config.fields[k].cell)
                            IN  /\ LettersThenDigits(t) /\ LetterCount(t) <= 3
                                /\ AnchorOf(t).row >= 2
        IN  /\ (badField \/ badPage) => err.tag = "ValueError" /\ saved = NoVal
            /\ badPage => err = CellRefError
            /\ (config.omit_page_column /\ placeable) => err = NoVal /\ saved # NoVal

\* C5 witness: no record at all, a malformed field cell, the cell-reference
\* error raised and nothing saved.
C5_Witness ==
    /\ pc = "done" /\ out_dir /\ use_cells(config)
    /\ n_pages = 0 /\ extracted_data = <<>>
    /\ config.omit_page_column
    /\ \E k \in CellFields(config) : ~LettersThenDigits(Strip(config.fields[k].cell))
    /\ err = CellRefError /\ saved = NoVal

\* C6: a run ends with the file written or with an error, never both; the
\* file is written only after every page has its record, every applicable
\* field was recognised and, in coordinate-addressed mode, every header and
\* data cell was placed; after an error no file is written.
C6_NoPartialSuccess ==
    /\ saved # NoVal =>
          /\ err = NoVal /\ pc = "done"
          /\ Len(extracted_data) = n_pages
          /\ ocr_calls = Cardinality(ApplicablePairs(config, n_pages))
          /\ saved.tag = "table" => saved.rows = extracted_data
          /\ saved.tag = "sheet" =>
                /\ saved.cells = ws
                /\ Len(written) =
                      (IF config.omit_page_column THEN 0 ELSE 1 + n_pages)
                      + Cardinality(CellFields(config)) * (1 + n_pages)
    /\ err # NoVal => saved = NoVal /\ pc = "done"
    /\ pc = "done" => (err # NoVal \/ saved # NoVal)

\* C6 witness: an error while placing cells, after a page was extracted and
\* a header cell was written, and no file.
C6_Witness ==
    /\ pc = "done" /\ err = CellRefError /\ saved = NoVal
    /\ Len(extracted_data) >= 1 /\ ocr_calls >= 1 /\ Len(written) >= 1

\* C7: when input_pdf is absent, empty or names no existing file, the run
\* never reaches the rasterizer, the OCR engine or the writer, and ends in
\* FileNotFoundError for the input.
C7_InputNotFound ==
    (config_exists /\ (\/ ~config.input_pdf.has
                       \/ config.input_pdf.path = ""
                       \/ config.input_pdf.path \notin ExistingFiles)) =>
        /\ raster_calls = 0 /\ ocr_calls = 0 /\ saved = NoVal /\ ~out_dir
        /\ pc \in {"load_config", "check_input", "done"}
        /\ pc = "done" => err = [tag |-> "FileNotFoundError", what |-> "input_pdf"]

\* C7 witness: a path that names no file, the error raised.
C7_Witness ==
    /\ pc = "done" /\ config_exists /\ config.input_pdf.path = "missing.pdf"
    /\ err = [tag |-> "FileNotFoundError", what |-> "input_pdf"]
    /\ raster_calls = 0

\* C8 (as stated): a field processed on a page whose box has left >= right
\* or top >= bottom or leaves the page raises an error there, so the loop
\* never gets past such a field and nothing is written in such a run.
C8_Original ==
    /\ pc = "field" =>
          \A k \in 1..(field_idx - 1) :
              Applies(config.fields[k], page_num) => ~BadBox(config.fields[k].box)
    /\ saved # NoVal =>
          \A pk \in ApplicablePairs(config, n_pages) : ~BadBox(config.fields[pk[2]].box)

C10_Preprocess ==
    /\ (pc = "idle" /\ result # NoVal) =>
          /\ result.mode = "L"
          /\ Len(result.data) = Len(image.data)
          /\ \A i \in 1..Len(image.data) :
                LET grey == IF image.mode = "RGB" THEN Luma(image.data[i])
                            ELSE image.data[i]
                IN  result.data[i] = IF grey > 150 THEN 255 ELSE 0
    /\ (pc = "idle" /\ result2 # NoVal) => result2 = result

\* C10 witness: a pixel of grey level exactly 150 became 0, one above became
\* 255, and the second pass changed nothing.
C10_Witness ==
    /\ pc = "idle" /\ result2 # NoVal /\ result2 = result
    /\ image.mode = "RGB" /\ Len(image.data) = 2
    /\ Luma(image.data[1]) = 150 /\ result.data[1] = 0
    /\ Luma(image.data[2]) > 150 /\ result.data[2] = 255

====
